---------------------------- MODULE Spec2Model ----------------------------
(***************************************************************************)
(* Nearest-integer floating-point operations of LLVM libc                  *)
(* (libc/src/__support/FPUtil/NearestIntegerOperations.h).                 *)
(*                                                                         *)
(* A floating-point value of type T is modelled by its bit pattern (what   *)
(* FPBits<T>::uintval() returns) in a small IEEE-754 binary interchange    *)
(* format with FRACTION_LEN fraction bits and EXP_LEN exponent bits and no *)
(* explicit integer bit (like float and double).  Every function of the    *)
(* header is an operator on bit patterns, translated statement by          *)
(* statement; the floating-point environment of the calling thread (the    *)
(* ambient rounding mode, the sticky exception flags, errno) is the state. *)
(***************************************************************************)
EXTENDS Integers, FiniteSets

(***************************************************************************)
(* Bounds of the model: the format T, the largest width handed to fromfp   *)
(* and the width of IntType.                                               *)
(***************************************************************************)
FRACTION_LEN == 2

EXP_LEN == 4

MaxWidth == 9

IntBits == 4

VARIABLES
    rounding_mode,  \* ambient rounding direction of the thread (fegetround)
    excepts,        \* sticky floating-point exception flags of the thread
    errno,          \* the thread's errno: "0" or "EDOM"
    pc,             \* "idle": between calls; "returned": a call has returned
    call,           \* the last call: [op, x, rnd, width, sgn]
    ret             \* what it returned: [val, exc, edom]

vars == <<rounding_mode, excepts, errno, pc, call, ret>>

-----------------------------------------------------------------------------
(* FPBits<T>: layout constants                                              *)

Pow2(n) == 2 ^ n

EXP_BIAS == Pow2(EXP_LEN - 1) - 1

FRACTION_MASK == Pow2(FRACTION_LEN) - 1

SIG_MASK == FRACTION_MASK

EXP_ALL_ONES == Pow2(EXP_LEN) - 1

SIGN_SHIFT == EXP_LEN + FRACTION_LEN

StorageType == 0 .. (Pow2(SIGN_SHIFT + 1) - 1)

POS == 0

NEG == 1

(* FPBits<T>: accessors                                                     *)

sign(u) == u \div Pow2(SIGN_SHIFT)

is_neg(u) == sign(u) = NEG

is_pos(u) == sign(u) = POS

get_biased_exponent(u) == (u \div Pow2(FRACTION_LEN)) % Pow2(EXP_LEN)

get_mantissa(u) == u % Pow2(FRACTION_LEN)

get_exponent(u) == get_biased_exponent(u) - EXP_BIAS

is_inf_or_nan(u) == get_biased_exponent(u) = EXP_ALL_ONES

is_nan(u) == is_inf_or_nan(u) /\ get_mantissa(u) # 0

is_inf(u) == is_inf_or_nan(u) /\ get_mantissa(u) = 0

is_zero(u) == get_biased_exponent(u) = 0 /\ get_mantissa(u) = 0

(* FPBits<T>: constructors and mutators                                     *)

create_value(s, biased_exp, mantissa) ==
    s * Pow2(SIGN_SHIFT)
      + (biased_exp % Pow2(EXP_LEN)) * Pow2(FRACTION_LEN)
      + (mantissa % Pow2(FRACTION_LEN))

zero(s) == create_value(s, 0, 0)

one(s) == create_value(s, EXP_BIAS, 0)

two(s) == create_value(s, EXP_BIAS + 1, 0)

inf(s) == create_value(s, EXP_ALL_ONES, 0)

quiet_nan == create_value(POS, EXP_ALL_ONES, Pow2(FRACTION_LEN - 1))

set_mantissa(u, m) == (u - get_mantissa(u)) + (m % Pow2(FRACTION_LEN))

\* (v >> n) << n on StorageType
ShiftOut(v, n) == (v \div Pow2(n)) * Pow2(n)

\* v & (1 << n), as a truth value
BitSet(v, n) == (v \div Pow2(n)) % 2 = 1

-----------------------------------------------------------------------------
(* The value a bit pattern denotes: (-1)^sign * (IntPart + FracNum/FracDen) *)

FracDen == Pow2(FRACTION_LEN + EXP_BIAS - 1)

Significand(u) ==
    IF get_biased_exponent(u) = 0 THEN get_mantissa(u)
    ELSE Pow2(FRACTION_LEN) + get_mantissa(u)

\* floor of the magnitude of a finite u
IntPart(u) ==
    IF get_exponent(u) < 0 THEN 0
    ELSE (Significand(u) * Pow2(get_exponent(u))) \div Pow2(FRACTION_LEN)

\* numerator, over FracDen, of the fractional part of the magnitude of a finite u
FracNum(u) ==
    IF get_biased_exponent(u) = 0 THEN get_mantissa(u)
    ELSE IF get_exponent(u) < 0
         THEN Significand(u) * Pow2(get_biased_exponent(u) - 1)
         ELSE ((Significand(u) * Pow2(get_exponent(u))) % Pow2(FRACTION_LEN))
                * Pow2(EXP_BIAS - 1)

IsFinite(u) == ~is_inf_or_nan(u)

IsIntegral(u) == IsFinite(u) /\ FracNum(u) = 0

\* the signed integer an integral u denotes
IntOf(u) == IF is_neg(u) THEN -IntPart(u) ELSE IntPart(u)


-----------------------------------------------------------------------------
(* Arithmetic and comparison of T, as the hardware performs them: the exact *)
(* result is rounded in the ambient rounding mode and FE_INEXACT is raised  *)
(* when the rounding changed it.  The header only ever adds and subtracts   *)
(* values that are zero or of magnitude >= 1, which is the domain of FAdd.  *)

Outcome(v, e, d) == [val |-> v, exc |-> e, edom |-> d]

Return(v) == Outcome(v, {}, FALSE)

FNeg(u) == IF is_neg(u) THEN u - Pow2(SIGN_SHIFT) ELSE u + Pow2(SIGN_SHIFT)

\* the operand in units of 2^-FRACTION_LEN
Fixed(u) ==
    IF is_zero(u) THEN 0
    ELSE (IF is_neg(u) THEN -1 ELSE 1) * Significand(u) * Pow2(get_exponent(u))

RECURSIVE Log2(_)
Log2(n) == IF n <= 1 THEN 0 ELSE 1 + Log2(n \div 2)

\* round the exact magnitude mag (units of 2^-FRACTION_LEN, mag > 0) of sign s
RoundMag(s, mag, rm) ==
    LET e == Log2(mag) - FRACTION_LEN
    IN  IF e <= 0
        THEN Return(create_value(s, e + EXP_BIAS, mag * Pow2(-e) - Pow2(FRACTION_LEN)))
        ELSE
          LET q    == mag \div Pow2(e)
              r    == mag % Pow2(e)
              half == Pow2(e - 1)
              up   == CASE rm = "FE_TONEAREST"  -> r > half \/ (r = half /\ q % 2 = 1)
                        [] rm = "FE_UPWARD"     -> r > 0 /\ s = POS
                        [] rm = "FE_DOWNWARD"   -> r > 0 /\ s = NEG
                        [] rm = "FE_TOWARDZERO" -> FALSE
              q1   == IF up THEN q + 1 ELSE q
              e1   == IF q1 = Pow2(FRACTION_LEN + 1) THEN e + 1 ELSE e
              m1   == IF q1 = Pow2(FRACTION_LEN + 1) THEN 0 ELSE q1 - Pow2(FRACTION_LEN)
              flg  == IF r > 0 THEN {"FE_INEXACT"} ELSE {}
          IN  IF e1 > EXP_BIAS
              THEN Outcome(inf(s), {"FE_OVERFLOW", "FE_INEXACT"}, FALSE)
              ELSE Outcome(create_value(s, e1 + EXP_BIAS, m1), flg, FALSE)

FAddIn(a, b, rm) ==
    LET sum == Fixed(a) + Fixed(b)
    IN  IF sum = 0
        THEN IF is_zero(a) /\ is_zero(b) /\ sign(a) = sign(b) THEN Return(a)
             ELSE Return(zero(IF rm = "FE_DOWNWARD" THEN NEG ELSE POS))
        ELSE IF sum < 0 THEN RoundMag(NEG, -sum, rm)
        ELSE RoundMag(POS, sum, rm)

FAdd(a, b) == FAddIn(a, b, rounding_mode)

FSub(a, b) == FAddIn(a, FNeg(b), rounding_mode)

\* the order of the non-NaN values: -inf < ... < -0 = +0 < ... < +inf
Key(u) ==
    IF is_neg(u) THEN -(u % Pow2(SIGN_SHIFT)) ELSE u % Pow2(SIGN_SHIFT)

FLess(a, b) == ~is_nan(a) /\ ~is_nan(b) /\ Key(a) < Key(b)

FGreater(a, b) == FLess(b, a)

FNotEqual(a, b) == is_nan(a) \/ is_nan(b) \/ Key(a) # Key(b)

-----------------------------------------------------------------------------
(* The functions of the header.  Each returns an outcome: the value         *)
(* returned, the exceptions the call raised and whether it set errno to     *)
(* EDOM.                                                                    *)

\* a plausible slip: the zero of the branch abs(x) < 1 built without the sign
trunc_UnsignedZero(x) ==
    IF is_inf_or_nan(x) THEN Return(x)
    ELSE LET exponent == get_exponent(x)
         IN  IF exponent >= FRACTION_LEN THEN Return(x)
             ELSE IF exponent <= -1 THEN Return(zero(POS))
             ELSE LET trim_size      == FRACTION_LEN - exponent
                      trunc_mantissa == ShiftOut(get_mantissa(x), trim_size)
                  IN  Return(set_mantissa(x, trunc_mantissa))

trunc(x) ==
    IF is_inf_or_nan(x) THEN Return(x)
    ELSE LET exponent == get_exponent(x)
         IN  IF exponent >= FRACTION_LEN THEN Return(x)
             ELSE IF exponent <= -1 THEN Return(zero(sign(x)))
             ELSE LET trim_size      == FRACTION_LEN - exponent
                      trunc_mantissa == ShiftOut(get_mantissa(x), trim_size)
                  IN  Return(set_mantissa(x, trunc_mantissa))

\* a plausible slip: the early return of an integral x left out
ceil_NoIntegralReturn(x) ==
    IF is_inf_or_nan(x) \/ is_zero(x) THEN Return(x)
    ELSE LET exponent == get_exponent(x)
         IN  IF exponent >= FRACTION_LEN THEN Return(x)
             ELSE IF exponent <= -1
                  THEN (IF is_neg(x) THEN Return(zero(NEG)) ELSE Return(one(POS)))
             ELSE LET trim_size == FRACTION_LEN - exponent
                      trunc_u   == ShiftOut(x, trim_size)
                  IN  IF is_neg(x) THEN Return(trunc_u)
                      ELSE FAdd(trunc_u, one(POS))

ceil(x) ==
    IF is_inf_or_nan(x) \/ is_zero(x) THEN Return(x)
    ELSE LET exponent == get_exponent(x)
         IN  IF exponent >= FRACTION_LEN THEN Return(x)
             ELSE IF exponent <= -1
                  THEN (IF is_neg(x) THEN Return(zero(NEG)) ELSE Return(one(POS)))
             ELSE LET trim_size == FRACTION_LEN - exponent
                      x_u       == x
                      trunc_u   == ShiftOut(x_u, trim_size)
                  IN  IF trunc_u = x_u THEN Return(x)
                      ELSE IF is_neg(x) THEN Return(trunc_u)
                      ELSE FAdd(trunc_u, one(POS))

\* a plausible slip: the branch of the negative x left out
floor_AsTrunc(x) == trunc(x)

floor(x) ==
    IF is_neg(x)
    THEN LET c == ceil(FNeg(x)) IN Outcome(FNeg(c.val), c.exc, c.edom)
    ELSE trunc(x)

\* a plausible slip: the half bit looked for one place too high
round_WrongHalfBit(x) ==
    IF is_inf_or_nan(x) \/ is_zero(x) THEN Return(x)
    ELSE LET exponent == get_exponent(x)
         IN  IF exponent >= FRACTION_LEN THEN Return(x)
             ELSE IF exponent = -1 THEN Return(one(sign(x)))
             ELSE IF exponent <= -2 THEN Return(zero(sign(x)))
             ELSE LET trim_size    == FRACTION_LEN - exponent
                      half_bit_set == BitSet(get_mantissa(x), trim_size)
                      trunc_u      == ShiftOut(x, trim_size)
                  IN  IF trunc_u = x THEN Return(x)
                      ELSE IF ~half_bit_set THEN Return(trunc_u)
                      ELSE IF is_neg(trunc_u) THEN FSub(trunc_u, one(POS))
                      ELSE FAdd(trunc_u, one(POS))

round(x) ==
    IF is_inf_or_nan(x) \/ is_zero(x) THEN Return(x)
    ELSE LET exponent == get_exponent(x)
         IN  IF exponent >= FRACTION_LEN THEN Return(x)
             ELSE IF exponent = -1 THEN Return(one(sign(x)))
             ELSE IF exponent <= -2 THEN Return(zero(sign(x)))
             ELSE LET trim_size    == FRACTION_LEN - exponent
                      half_bit_set == BitSet(get_mantissa(x), trim_size - 1)
                      x_u          == x
                      trunc_u      == ShiftOut(x_u, trim_size)
                  IN  IF trunc_u = x_u THEN Return(x)
                      ELSE IF ~half_bit_set THEN Return(trunc_u)
                      ELSE IF is_neg(trunc_u) THEN FSub(trunc_u, one(POS))
                      ELSE FAdd(trunc_u, one(POS))

\* switch (rnd) of the branch exponent <= -1: abs(x) < 1
RoundBelowOne(x, rnd) ==
    LET is_negative == is_neg(x)
        exponent    == get_exponent(x)
    IN  CASE rnd = "FP_INT_DOWNWARD" ->
               Return(IF is_negative THEN one(NEG) ELSE zero(POS))
          [] rnd = "FP_INT_UPWARD" ->
               Return(IF is_negative THEN zero(NEG) ELSE one(POS))
          [] rnd = "FP_INT_TOWARDZERO" ->
               Return(IF is_negative THEN zero(NEG) ELSE zero(POS))
          [] rnd = "FP_INT_TONEARESTFROMZERO" ->
               IF exponent < -1
               THEN Return(IF is_negative THEN zero(NEG) ELSE zero(POS))
               ELSE Return(IF is_negative THEN one(NEG) ELSE one(POS))
          [] OTHER ->
               IF exponent <= -2 \/ get_mantissa(x) = 0
               THEN Return(IF is_negative THEN zero(NEG) ELSE zero(POS))
               ELSE Return(IF is_negative THEN one(NEG) ELSE one(POS))

\* is_neg ? trunc_value - T(1.0) : trunc_value + T(1.0)
AwayFromZero(is_negative, trunc_value) ==
    IF is_negative THEN FSub(trunc_value, one(POS)) ELSE FAdd(trunc_value, one(POS))

\* the rest of the function: 0 <= exponent < FRACTION_LEN
RoundTrimmed(x, rnd) ==
    LET is_negative  == is_neg(x)
        exponent     == get_exponent(x)
        trim_size    == FRACTION_LEN - exponent
        x_u          == x
        trunc_u      == ShiftOut(x_u, trim_size)
        trunc_value  == trunc_u
        trim_value   == get_mantissa(x) % Pow2(trim_size)
        half_value   == Pow2(trim_size - 1)
        trunc_is_odd == BitSet(get_mantissa(trunc_u), trim_size)
    IN  IF trunc_u = x_u THEN Return(x)
        ELSE
          CASE rnd = "FP_INT_DOWNWARD" ->
                 IF is_negative THEN FSub(trunc_value, one(POS))
                 ELSE Return(trunc_value)
            [] rnd = "FP_INT_UPWARD" ->
                 IF is_negative THEN Return(trunc_value)
                 ELSE FAdd(trunc_value, one(POS))
            [] rnd = "FP_INT_TOWARDZERO" -> Return(trunc_value)
            [] rnd = "FP_INT_TONEARESTFROMZERO" ->
                 IF trim_value >= half_value
                 THEN AwayFromZero(is_negative, trunc_value)
                 ELSE Return(trunc_value)
            [] OTHER ->
                 IF trim_value > half_value
                 THEN AwayFromZero(is_negative, trunc_value)
                 ELSE IF trim_value = half_value
                 THEN IF exponent = 0
                      THEN Return(IF is_negative THEN two(NEG) ELSE two(POS))
                      ELSE IF trunc_is_odd
                           THEN AwayFromZero(is_negative, trunc_value)
                           ELSE Return(trunc_value)
                 ELSE Return(trunc_value)

\* a plausible slip: the tie of FP_INT_TONEAREST decided as in FP_INT_TONEARESTFROMZERO
round_using_specific_rounding_mode_TiesAway(x, rnd) ==
    IF is_inf_or_nan(x) \/ is_zero(x) THEN Return(x)
    ELSE IF get_exponent(x) >= FRACTION_LEN THEN Return(x)
    ELSE IF get_exponent(x) <= -1 THEN RoundBelowOne(x, rnd)
    ELSE RoundTrimmed(x, IF rnd = "FP_INT_TONEAREST"
                         THEN "FP_INT_TONEARESTFROMZERO" ELSE rnd)

round_using_specific_rounding_mode(x, rnd) ==
    IF is_inf_or_nan(x) \/ is_zero(x) THEN Return(x)
    ELSE IF get_exponent(x) >= FRACTION_LEN THEN Return(x)
    ELSE IF get_exponent(x) <= -1 THEN RoundBelowOne(x, rnd)
    ELSE RoundTrimmed(x, rnd)

\* quick_get_round(): the ambient rounding mode, one of the four FE_ values
quick_get_round == rounding_mode

\* a plausible slip: FE_DOWNWARD and FE_UPWARD taken for each other
round_using_current_rounding_mode_Swapped(x) ==
    CASE quick_get_round = "FE_DOWNWARD" ->
           round_using_specific_rounding_mode(x, "FP_INT_UPWARD")
      [] quick_get_round = "FE_UPWARD" ->
           round_using_specific_rounding_mode(x, "FP_INT_DOWNWARD")
      [] quick_get_round = "FE_TOWARDZERO" ->
           round_using_specific_rounding_mode(x, "FP_INT_TOWARDZERO")
      [] quick_get_round = "FE_TONEAREST" ->
           round_using_specific_rounding_mode(x, "FP_INT_TONEAREST")

round_using_current_rounding_mode(x) ==
    CASE quick_get_round = "FE_DOWNWARD" ->
           round_using_specific_rounding_mode(x, "FP_INT_DOWNWARD")
      [] quick_get_round = "FE_UPWARD" ->
           round_using_specific_rounding_mode(x, "FP_INT_UPWARD")
      [] quick_get_round = "FE_TOWARDZERO" ->
           round_using_specific_rounding_mode(x, "FP_INT_TOWARDZERO")
      [] quick_get_round = "FE_TONEAREST" ->
           round_using_specific_rounding_mode(x, "FP_INT_TONEAREST")

EXPLICIT_BIT == SIG_MASK - FRACTION_MASK

\* raise_except_if_required(FE_INVALID); return FPBits<T>::quiet_nan().get_val();
InvalidNaN(sofar) == Outcome(quiet_nan, sofar \cup {"FE_INVALID"}, FALSE)

\* the check against range_max = 2^k - 1.0, which the subtraction mx computed
AboveRangeMax(r, mx) ==
    IF FGreater(r.val, mx.val) THEN InvalidNaN(r.exc \cup mx.exc)
    ELSE Outcome(r.val, r.exc \cup mx.exc, FALSE)

\* if constexpr (IsSigned) { ... }: r is the outcome of the rounding
SignedRange(r, width) ==
    IF width - 1 > EXP_BIAS THEN r
    ELSE IF FLess(r.val, create_value(NEG, width - 1 + EXP_BIAS, EXPLICIT_BIT))
         THEN InvalidNaN(r.exc)
    ELSE AboveRangeMax(r, FSub(create_value(POS, width - 1 + EXP_BIAS, EXPLICIT_BIT),
                               one(POS)))

\* the rest of fromfp, reached when IsSigned is false
UnsignedRange(r, width) ==
    IF FLess(r.val, zero(POS)) THEN InvalidNaN(r.exc)
    ELSE IF width > EXP_BIAS THEN r
    ELSE AboveRangeMax(r, FSub(create_value(POS, width + EXP_BIAS, EXPLICIT_BIT),
                               one(POS)))

RangeCheck(IsSigned, r, width) ==
    IF IsSigned THEN SignedRange(r, width) ELSE UnsignedRange(r, width)

fromfp(IsSigned, x, rnd, width) ==
    IF width = 0 THEN InvalidNaN({})
    ELSE IF is_inf_or_nan(x) THEN InvalidNaN({})
    ELSE RangeCheck(IsSigned, round_using_specific_rounding_mode(x, rnd), width)

\* if (!bits.is_nan() && rounded_value != x) raise_except_if_required(FE_INEXACT);
RaiseInexactIfChanged(f, x) ==
    IF ~is_nan(f.val) /\ FNotEqual(f.val, x)
    THEN Outcome(f.val, f.exc \cup {"FE_INEXACT"}, f.edom)
    ELSE f

fromfpx(IsSigned, x, rnd, width) ==
    RaiseInexactIfChanged(fromfp(IsSigned, x, rnd, width), x)

INTEGER_MIN == -Pow2(IntBits - 1)

INTEGER_MAX == -(INTEGER_MIN + 1)

EXPONENT_LIMIT == IntBits - 1

\* set_errno_if_required(EDOM); raise_except_if_required(FE_INVALID);
\* return bits.is_neg() ? INTEGER_MIN : INTEGER_MAX;
DomainErrorSaturate(x) ==
    Outcome(IF is_neg(x) THEN INTEGER_MIN ELSE INTEGER_MAX, {"FE_INVALID"}, TRUE)

\* static_cast<IntType>(x) of a value inside the range of IntType
StaticCast(x) == IntOf(x)

\* a plausible slip: the case exponent == EXPONENT_LIMIT left out
rounded_float_to_signed_integer_NoLimitCase(x) ==
    IF is_inf_or_nan(x) THEN DomainErrorSaturate(x)
    ELSE IF get_exponent(x) > EXPONENT_LIMIT THEN DomainErrorSaturate(x)
    ELSE Return(StaticCast(x))

rounded_float_to_signed_integer(x) ==
    IF is_inf_or_nan(x) THEN DomainErrorSaturate(x)
    ELSE LET exponent == get_exponent(x)
         IN  IF exponent > EXPONENT_LIMIT THEN DomainErrorSaturate(x)
             ELSE IF exponent = EXPONENT_LIMIT /\ (is_pos(x) \/ get_mantissa(x) # 0)
                  THEN DomainErrorSaturate(x)
             ELSE Return(StaticCast(x))

\* g(f(x)): the effects of the argument's evaluation, then those of the call
Then(f, g) == Outcome(g.val, f.exc \cup g.exc, f.edom \/ g.edom)

round_to_signed_integer(x) ==
    Then(round(x), rounded_float_to_signed_integer(round(x).val))

round_to_signed_integer_using_current_rounding_mode(x) ==
    Then(round_using_current_rounding_mode(x),
         rounded_float_to_signed_integer(round_using_current_rounding_mode(x).val))

-----------------------------------------------------------------------------
(* The calling thread: it calls one function of the header at a time, from  *)
(* any floating-point environment, and the effects of the call land in its  *)
(* environment.                                                             *)

AmbientModes == {"FE_TONEAREST", "FE_UPWARD", "FE_DOWNWARD", "FE_TOWARDZERO"}

Directions ==
    {"FP_INT_UPWARD", "FP_INT_DOWNWARD", "FP_INT_TOWARDZERO",
     "FP_INT_TONEARESTFROMZERO", "FP_INT_TONEAREST"}

Widths == 0 .. MaxWidth

StickyFlags == {"FE_INVALID", "FE_INEXACT"}

NoCall == [op |-> "none", x |-> 0, rnd |-> "none", width |-> 0, sgn |-> FALSE]

Init ==
    /\ rounding_mode = "FE_TONEAREST"
    /\ excepts = {}
    /\ errno = "0"
    /\ pc = "idle"
    /\ call = NoCall
    /\ ret = Return(0)

\* a call of op with the given arguments returns the outcome out
Do(op, x, rnd, width, sgn, out) ==
    /\ pc' = "returned"
    /\ call' = [op |-> op, x |-> x, rnd |-> rnd, width |-> width, sgn |-> sgn]
    /\ ret' = out
    /\ excepts' = excepts \cup out.exc
    /\ errno' = IF out.edom THEN "EDOM" ELSE errno
    /\ UNCHANGED rounding_mode

CallTrunc ==
    /\ pc = "idle"
    /\ \E x \in StorageType : Do("trunc", x, "none", 0, FALSE, trunc(x))

CallCeil ==
    /\ pc = "idle"
    /\ \E x \in StorageType : Do("ceil", x, "none", 0, FALSE, ceil(x))

CallFloor ==
    /\ pc = "idle"
    /\ \E x \in StorageType : Do("floor", x, "none", 0, FALSE, floor(x))

CallRound ==
    /\ pc = "idle"
    /\ \E x \in StorageType : Do("round", x, "none", 0, FALSE, round(x))

CallRoundSpecific ==
    /\ pc = "idle"
    /\ \E x \in StorageType, rnd \in Directions :
        Do("round_using_specific_rounding_mode", x, rnd, 0, FALSE,
           round_using_specific_rounding_mode(x, rnd))

CallRoundCurrent ==
    /\ pc = "idle"
    /\ \E x \in StorageType :
        Do("round_using_current_rounding_mode", x, "none", 0, FALSE,
           round_using_current_rounding_mode(x))

CallFromfp ==
    /\ pc = "idle"
    /\ \E IsSigned \in BOOLEAN, x \in StorageType, rnd \in Directions, width \in Widths :
        Do("fromfp", x, rnd, width, IsSigned, fromfp(IsSigned, x, rnd, width))

CallFromfpx ==
    /\ pc = "idle"
    /\ \E IsSigned \in BOOLEAN, x \in StorageType, rnd \in Directions, width \in Widths :
        Do("fromfpx", x, rnd, width, IsSigned, fromfpx(IsSigned, x, rnd, width))

CallRoundToSignedInteger ==
    /\ pc = "idle"
    /\ \E x \in StorageType :
        Do("round_to_signed_integer", x, "none", 0, TRUE, round_to_signed_integer(x))

CallRoundToSignedIntegerCurrent ==
    /\ pc = "idle"
    /\ \E x \in StorageType :
        Do("round_to_signed_integer_using_current_rounding_mode", x, "none", 0, TRUE,
           round_to_signed_integer_using_current_rounding_mode(x))

\* the caller has used the result and goes on; the flags and errno stay as the
\* call left them
Resume ==
    /\ pc = "returned"
    /\ pc' = "idle"
    /\ call' = NoCall
    /\ ret' = Return(0)
    /\ UNCHANGED <<rounding_mode, excepts, errno>>

\* the caller has used the result and goes on after feclearexcept(FE_ALL_EXCEPT)
\* and errno = 0
ResumeCleared ==
    /\ pc = "returned"
    /\ pc' = "idle"
    /\ excepts' = {}
    /\ errno' = "0"
    /\ call' = NoCall
    /\ ret' = Return(0)
    /\ UNCHANGED rounding_mode

FeSetRound ==
    /\ pc = "idle"
    /\ \E m \in AmbientModes : rounding_mode' = m
    /\ UNCHANGED <<excepts, errno, pc, call, ret>>

FeRaiseExcept ==
    /\ pc = "idle"
    /\ \E e \in StickyFlags : excepts' = excepts \cup {e}
    /\ UNCHANGED <<rounding_mode, errno, pc, call, ret>>

SetErrno ==
    /\ pc = "idle"
    /\ errno' = "EDOM"
    /\ UNCHANGED <<rounding_mode, excepts, pc, call, ret>>

FeClearExcept ==
    /\ pc = "idle"
    /\ excepts' = {}
    /\ errno' = "0"
    /\ UNCHANGED <<rounding_mode, pc, call, ret>>

\* the rounding functions, called from every environment
NextRound ==
    \/ CallTrunc
    \/ CallCeil
    \/ CallFloor
    \/ CallRound
    \/ CallRoundSpecific
    \/ CallRoundCurrent
    \/ Resume
    \/ FeSetRound
    \/ FeRaiseExcept
    \/ SetErrno
    \/ FeClearExcept

SpecRound == Init /\ [][NextRound]_vars

\* the fixed-width conversions, called with clear flags in every rounding mode
NextFromfp ==
    \/ CallFromfp
    \/ CallFromfpx
    \/ ResumeCleared
    \/ FeSetRound

SpecFromfp == Init /\ [][NextFromfp]_vars

\* the conversions to IntType
NextInt ==
    \/ CallRoundToSignedInteger
    \/ CallRoundToSignedIntegerCurrent
    \/ Resume
    \/ FeSetRound
    \/ FeClearExcept

SpecInt == Init /\ [][NextInt]_vars

Next == NextRound \/ NextFromfp \/ NextInt

Spec == Init /\ [][Next]_vars

-----------------------------------------------------------------------------
(* What the results are compared with: the integers of arithmetic.          *)

Returned(op) == pc = "returned" /\ call.op = op

\* r is the integral value of sign s and magnitude n
Denotes(r, s, n) == IsIntegral(r) /\ sign(r) = s /\ IntPart(r) = n

\* |a| <= |b|
MagLeq(a, b) ==
    \/ IntPart(a) < IntPart(b)
    \/ IntPart(a) = IntPart(b) /\ FracNum(a) <= FracNum(b)

\* |a| - |b| < 1, for |b| <= |a|
MagDiffBelowOne(a, b) ==
    \/ IntPart(a) = IntPart(b)
    \/ IntPart(a) = IntPart(b) + 1 /\ FracNum(a) < FracNum(b)

\* the magnitude of the integer that the rounding direction rnd selects for a
\* finite x: the integers next to x are IntPart(x) and, away from zero,
\* IntPart(x) + 1
Selected(x, rnd) ==
    LET n    == IntPart(x)
        frac == 2 * FracNum(x)     \* twice the fraction, over FracDen
        away == CASE rnd = "FP_INT_TOWARDZERO"        -> FALSE
                  [] rnd = "FP_INT_DOWNWARD"          -> is_neg(x) /\ frac > 0
                  [] rnd = "FP_INT_UPWARD"            -> is_pos(x) /\ frac > 0
                  [] rnd = "FP_INT_TONEARESTFROMZERO" -> frac >= FracDen
                  [] rnd = "FP_INT_TONEAREST"         ->
                       frac > FracDen \/ (frac = FracDen /\ n % 2 = 1)
    IN  IF away THEN n + 1 ELSE n

\* s * (n + q/4) for n >= 1 and q in 0 .. 3, where the format holds it: the
\* halves from 1 up to 4 need FRACTION_LEN >= 2
Quarters(s, n, q) ==
    create_value(s, EXP_BIAS + Log2(n),
                 ((4 * n + q) * Pow2(FRACTION_LEN - Log2(n))) \div 4)

Half(s) == create_value(s, EXP_BIAS - 1, 0)

-----------------------------------------------------------------------------
(* C1: for every finite x and each of the five directions,                  *)
(* round_using_specific_rounding_mode(x, rnd) is the integral value the     *)
(* direction selects, with the sign of x (also on a zero result): toward    *)
(* zero, down, up, to nearest with ties away from zero, to nearest with     *)
(* ties to even (2.5 -> 2, 3.5 -> 4, -2.5 -> -2, 1.5 -> 2, 0.5 -> 0); an    *)
(* infinity, a NaN, a zero and an integral x come back bit for bit.         *)
C1_DirectedRounding ==
    Returned("round_using_specific_rounding_mode") =>
      LET x == call.x
          r == ret.val
      IN  /\ IsFinite(x) => Denotes(r, sign(x), Selected(x, call.rnd))
          /\ (is_inf_or_nan(x) \/ is_zero(x) \/ IsIntegral(x)) => r = x
          /\ call.rnd = "FP_INT_TONEAREST" =>
               /\ x = Quarters(POS, 2, 2) => r = Quarters(POS, 2, 0)
               /\ x = Quarters(POS, 3, 2) => r = Quarters(POS, 4, 0)
               /\ x = Quarters(NEG, 2, 2) => r = Quarters(NEG, 2, 0)
               /\ x = Quarters(POS, 1, 2) => r = Quarters(POS, 2, 0)
               /\ x = Half(POS) => r = zero(POS)

C1_Witness ==
    /\ Returned("round_using_specific_rounding_mode")
    /\ call.rnd = "FP_INT_TONEAREST"
    /\ call.x = Quarters(NEG, 2, 2)
    /\ ret.val = Quarters(NEG, 2, 0)

-----------------------------------------------------------------------------
(* C6: for every finite x, round(x) is the integral value nearest to x,     *)
(* ties going away from zero, with the sign of x: |x| < 0.5 gives the zero  *)
(* of that sign, 0.5 <= |x| < 1 gives +-1, and from 1 on the truncation is  *)
(* moved one away from zero exactly when the fraction is >= 0.5             *)
(* (round(2.5) = 3, round(-2.5) = -3, round(0.5) = 1); an infinity, a NaN   *)
(* and a zero come back unchanged.                                          *)
C6_RoundHalfAway ==
    Returned("round") =>
      LET x == call.x
          r == ret.val
      IN  /\ IsFinite(x) =>
               /\ Denotes(r, sign(x), Selected(x, "FP_INT_TONEARESTFROMZERO"))
               /\ (IntPart(x) = 0 /\ 2 * FracNum(x) < FracDen) => r = zero(sign(x))
               /\ (IntPart(x) = 0 /\ 2 * FracNum(x) >= FracDen) => r = one(sign(x))
               /\ IntPart(x) >= 1 =>
                    IntPart(r) = IntPart(x) + (IF 2 * FracNum(x) >= FracDen THEN 1 ELSE 0)
          /\ (is_inf_or_nan(x) \/ is_zero(x)) => r = x
          /\ x = Quarters(POS, 2, 2) => r = Quarters(POS, 3, 0)
          /\ x = Quarters(NEG, 2, 2) => r = Quarters(NEG, 3, 0)
          /\ x = Half(POS) => r = one(POS)

C6_Witness ==
    /\ Returned("round")
    /\ call.x = Quarters(NEG, 2, 2)
    /\ ret.val = Quarters(NEG, 3, 0)

(* C7: for every finite x (normal, subnormal or zero), trunc(x) has the     *)
(* sign bit of x, is integral, is not larger than x in magnitude and is     *)
(* less than 1 away from x.                                                 *)
C7_TruncTowardZero ==
    Returned("trunc") =>
      LET x == call.x
          r == ret.val
      IN  IsFinite(x) =>
            /\ sign(r) = sign(x)
            /\ IsIntegral(r)
            /\ MagLeq(r, x)
            /\ MagDiffBelowOne(x, r)

\* a negative subnormal truncates to the negative zero
C7_Witness ==
    /\ Returned("trunc")
    /\ is_neg(call.x)
    /\ get_biased_exponent(call.x) = 0
    /\ get_mantissa(call.x) # 0
    /\ ret.val = zero(NEG)

(* C8: each rounding function is idempotent on every input that is not a    *)
(* NaN: applied to its own result it returns that result; so every result   *)
(* of a finite x is integral, and an integral x, the negative zero too, is  *)
(* returned unchanged.                                                      *)
C8_Idempotent ==
    (pc = "returned" /\ ~is_nan(call.x)) =>
         LET x == call.x
             r == ret.val
         IN  /\ call.op = "trunc" =>
                  /\ trunc(r).val = r
                  /\ IsFinite(x) => IsIntegral(r)
                  /\ IsIntegral(x) => r = x
             /\ call.op = "ceil" =>
                  /\ ceil(r).val = r
                  /\ IsFinite(x) => IsIntegral(r)
                  /\ IsIntegral(x) => r = x
             /\ call.op = "floor" =>
                  /\ floor(r).val = r
                  /\ IsFinite(x) => IsIntegral(r)
                  /\ IsIntegral(x) => r = x
             /\ call.op = "round" =>
                  /\ round(r).val = r
                  /\ IsFinite(x) => IsIntegral(r)
                  /\ IsIntegral(x) => r = x
             /\ call.op = "round_using_specific_rounding_mode" =>
                  /\ round_using_specific_rounding_mode(r, call.rnd).val = r
                  /\ IsFinite(x) => IsIntegral(r)
                  /\ IsIntegral(x) => r = x

\* ceil has moved a fraction up to an integer, which ceil leaves alone
C8_Witness ==
    /\ Returned("ceil")
    /\ call.x = Quarters(POS, 2, 2)
    /\ ret.val = Quarters(POS, 3, 0)
    /\ ceil(ret.val).val = Quarters(POS, 3, 0)

\* the direction of an ambient rounding mode
DirectionOf(mode) ==
    CASE mode = "FE_TONEAREST"  -> "FP_INT_TONEAREST"
      [] mode = "FE_DOWNWARD"   -> "FP_INT_DOWNWARD"
      [] mode = "FE_UPWARD"     -> "FP_INT_UPWARD"
      [] mode = "FE_TOWARDZERO" -> "FP_INT_TOWARDZERO"

(* C9: in each of the four ambient rounding modes,                          *)
(* round_using_current_rounding_mode(x) returns what                        *)
(* round_using_specific_rounding_mode(x, d) returns for the direction d of  *)
(* the mode (never that of FP_INT_TONEARESTFROMZERO where the two differ),  *)
(* and the call leaves the ambient rounding mode, the exception flags and   *)
(* errno as they were.                                                      *)
C9_AmbientDispatch ==
    [][(pc = "idle" /\ pc' = "returned"
          /\ call'.op = "round_using_current_rounding_mode") =>
         /\ ret' = round_using_specific_rounding_mode(call'.x, DirectionOf(rounding_mode))
         /\ rounding_mode' = rounding_mode
         /\ excepts' = excepts
         /\ errno' = errno
         /\ (rounding_mode = "FE_TONEAREST" /\ call'.x = Quarters(POS, 2, 2)) =>
              ret'.val = Quarters(POS, 2, 0)]_vars

\* a tie rounded upward, with flags and errno set before the call still set
C9_Witness ==
    /\ Returned("round_using_current_rounding_mode")
    /\ rounding_mode = "FE_UPWARD"
    /\ call.x = Quarters(NEG, 2, 2)
    /\ ret.val = Quarters(NEG, 2, 0)
    /\ excepts = {"FE_INEXACT"}
    /\ errno = "EDOM"

(* C10: on every x that is not a NaN, trunc, ceil, floor and round return   *)
(* bit for bit what round_using_specific_rounding_mode returns for          *)
(* FP_INT_TOWARDZERO, FP_INT_UPWARD, FP_INT_DOWNWARD and                    *)
(* FP_INT_TONEARESTFROMZERO, the sign of a zero result included: ceil of    *)
(* an x in (-1, 0) is -0 and floor(-0) is -0.                               *)
C10_PrimitivesAgree ==
    (pc = "returned" /\ ~is_nan(call.x)) =>
      LET x == call.x
          r == ret.val
      IN  /\ call.op = "trunc" =>
               r = round_using_specific_rounding_mode(x, "FP_INT_TOWARDZERO").val
          /\ call.op = "ceil" =>
               /\ r = round_using_specific_rounding_mode(x, "FP_INT_UPWARD").val
               /\ (is_neg(x) /\ IntPart(x) = 0 /\ FracNum(x) > 0) => r = zero(NEG)
          /\ call.op = "floor" =>
               /\ r = round_using_specific_rounding_mode(x, "FP_INT_DOWNWARD").val
               /\ x = zero(NEG) => r = zero(NEG)
          /\ call.op = "round" =>
               r = round_using_specific_rounding_mode(x, "FP_INT_TONEARESTFROMZERO").val

\* floor of a negative fraction goes through -ceil(-x)
C10_Witness ==
    /\ Returned("floor")
    /\ call.x = Quarters(NEG, 2, 2)
    /\ ret.val = Quarters(NEG, 3, 0)
    /\ ret.val = round_using_specific_rounding_mode(call.x, "FP_INT_DOWNWARD").val

-----------------------------------------------------------------------------
\* the integer n is in the domain of the width: [-2^(width-1), 2^(width-1) - 1]
\* when signed, [0, 2^width - 1] when not
InDomain(IsSigned, n, width) ==
    IF IsSigned THEN -Pow2(width - 1) <= n /\ n <= Pow2(width - 1) - 1
    ELSE 0 <= n /\ n <= Pow2(width) - 1

\* fromfp has to reject the call: no width, no finite x, or a rounded value
\* outside the domain
MustReject(IsSigned, x, rnd, width) ==
    \/ width = 0
    \/ is_inf_or_nan(x)
    \/ ~InDomain(IsSigned, IntOf(round_using_specific_rounding_mode(x, rnd).val), width)

(* C2: fromfp<IsSigned>(x, rnd, width) returns the quiet NaN exactly when   *)
(* width is 0, or x is an infinity or a NaN, or the rounded value           *)
(* round_using_specific_rounding_mode(x, rnd) is outside the domain of the  *)
(* width, and returns the rounded value otherwise; so a result that is not  *)
(* a NaN is in the domain, also for a width whose largest value             *)
(* 2^(width-1) - 1 (or 2^width - 1) the format cannot represent.            *)
C2_FromfpDomain ==
    Returned("fromfp") =>
      LET must == MustReject(call.sgn, call.x, call.rnd, call.width)
      IN  /\ is_nan(ret.val) <=> must
          /\ must => ret.val = quiet_nan
          /\ ~must =>
               /\ ret.val = round_using_specific_rounding_mode(call.x, call.rnd).val
               /\ InDomain(call.sgn, IntOf(ret.val), call.width)

(* C3: whenever fromfp rejects a finite x because its rounded value is      *)
(* outside the domain, it sets errno to EDOM, raises FE_INVALID and returns *)
(* the quiet NaN.                                                           *)
C3_DomainErrorSignalled ==
    (Returned("fromfp") /\ call.width > 0 /\ IsFinite(call.x) /\ is_nan(ret.val)) =>
      /\ ret.edom
      /\ errno = "EDOM"
      /\ "FE_INVALID" \in ret.exc
      /\ ret.val = quiet_nan

(* C4: a call raises FE_INEXACT exactly when it is a call of fromfpx whose  *)
(* result is not a NaN and differs from x; fromfpx returns what fromfp      *)
(* returns for the same arguments, and fromfp never raises FE_INEXACT.      *)
C4_InexactOnlyWhenChanged ==
    (pc = "returned" /\ call.op \in {"fromfp", "fromfpx"}) =>
      /\ "FE_INEXACT" \in ret.exc <=>
           (call.op = "fromfpx" /\ ~is_nan(ret.val) /\ FNotEqual(ret.val, call.x))
      /\ call.op = "fromfpx" =>
           ret.val = fromfp(call.sgn, call.x, call.rnd, call.width).val

-----------------------------------------------------------------------------
\* the value that the conversion to IntType narrows
RoundedOf(op, x) ==
    IF op = "round_to_signed_integer" THEN round(x).val
    ELSE round_using_current_rounding_mode(x).val

(* C5: round_to_signed_integer(x), and the variant of the ambient rounding  *)
(* mode, return the rounded value and signal nothing when it is finite and  *)
(* in [-2^(W-1), 2^(W-1) - 1], the bound -2^(W-1) included; in every other  *)
(* case (the rounded value infinite, a NaN or outside, +2^(W-1) included)   *)
(* they set errno to EDOM, raise FE_INVALID and return the least value of   *)
(* IntType if the sign bit is set, the greatest if not.                     *)
C5_SignedIntegerCast ==
    (pc = "returned"
       /\ call.op \in {"round_to_signed_integer",
                       "round_to_signed_integer_using_current_rounding_mode"}) =>
      LET r == RoundedOf(call.op, call.x)
      IN  IF IsFinite(r) /\ InDomain(TRUE, IntOf(r), IntBits)
          THEN /\ ret.val = IntOf(r)
               /\ ret.exc = {}
               /\ ~ret.edom
          ELSE /\ ret.val = IF is_neg(r) THEN -Pow2(IntBits - 1) ELSE Pow2(IntBits - 1) - 1
               /\ "FE_INVALID" \in ret.exc
               /\ ret.edom
               /\ errno = "EDOM"

\* the least value of IntType, converted without a signal after a failed call
C5_Witness ==
    /\ Returned("round_to_signed_integer")
    /\ IntOf(round(call.x).val) = -Pow2(IntBits - 1)
    /\ ret.val = -Pow2(IntBits - 1)
    /\ ret.exc = {}
    /\ errno = "EDOM"

=============================================================================
